---- MODULE Spec2Model ----
(***************************************************************************)
(* State-machine model of PerTokenContract (src/src/lib.rs): the invoice   *)
(* -> payment -> token flow over Soroban persistent storage.               *)
(*                                                                         *)
(* Every contract invocation runs to completion as one transaction, so     *)
(* each public function is one action.  call/ret record the last           *)
(* invocation and its return value; issued is the history of tokens        *)
(* returned by successful submit_payment calls.                            *)
(***************************************************************************)
EXTENDS Integers, Sequences, FiniteSets, TLC

VARIABLES
    timestamp,   \* env.ledger().timestamp()
    invoices,    \* persistent storage, keys DataKey::PaymentInvoice(id)
    records,     \* persistent storage, keys DataKey::PaymentRecord(id)
    call,        \* the last invocation: function name and arguments
    ret,         \* the value the last invocation returned
    issued,      \* history: tokens returned by successful submit_payment
    advances,    \* number of ledger time advances so far
    scenario     \* history: how far the run so far follows the end-to-end scenario

vars == <<timestamp, invoices, records, call, ret, issued, advances, scenario>>

store == <<invoices, records>>

----------------------------------------------------------------------------
(* Bounds and input domains *)

MaxAdvances == 2

StartTime == 1000

InvoiceTtl == 3600

MinTxHashLen == 10

Deltas == {1, InvoiceTtl, 4000}

SiteIds == {"site123"}

UrlHashes == {"hash456"}

Amounts == {1000000, 0}

PaymentIds == {"pay_123456789", "nonexistent_id"}

TxHashes == {"bad", "123456789", "1234567890", "stellar_tx_hash_123456"}

PayerKeys == {"GCKFBEI...", "payer_key"}

JwtTokens == {"", "pertoken.jwt.token", "garbage"}

----------------------------------------------------------------------------
(* Return values *)

Ok(v) == [tag |-> "Ok", value |-> v]

Err(e) == [tag |-> "Err", error |-> e]

Some(v) == [tag |-> "Some", value |-> v]

None == [tag |-> "None"]

Unit == [tag |-> "Unit"]

\* the invocation panicked: the host aborts it and rolls its writes back
Trap == [tag |-> "Trap"]

EmptyStore == [k \in {} |-> None]

storage_get(map, key) == IF key \in DOMAIN map THEN Some(map[key]) ELSE None

storage_set(map, key, val) == [k \in DOMAIN map \cup {key} |-> IF k = key THEN val ELSE map[k]]

----------------------------------------------------------------------------
(* u64 arithmetic.  A u64 is held as its two's-complement signed reading:  *)
(* n < 2^63 is held as n and 2^64 - k as -k, so values near either end of  *)
(* the u64 range are small integers.  Addition acts on both readings alike *)
(* and wraps past u64::MAX exactly when it goes from negative to >= 0.     *)

\* variant: a >= b on u64
u64_ge(a, b) == a = b \/ (IF (a < 0) = (b < 0) THEN a > b ELSE a < 0)

\* a > b on u64
u64_gt(a, b) == IF (a < 0) = (b < 0) THEN a > b ELSE a < 0

\* a + c on u64 leaves the range (c a small non-negative number)
u64_add_overflows(a, c) == a < 0 /\ a + c >= 0

\* a + c on u64 modulo 2^64
u64_wrapping_add(a, c) == a + c

\* r is the exact sum a + c, the addition not having wrapped
u64_is_sum(r, a, c) == r = a + c /\ ~u64_add_overflows(a, c)

----------------------------------------------------------------------------
(* Private helper functions *)

generate_payment_id(site_id, url_hash, current_time) == "pay_123456789"

generate_jwt_empty(payment_record) == ""

generate_jwt(payment_record) == "pertoken.jwt.token"

extract_payment_id_from_jwt_none(jwt_token) == ""

extract_payment_id_from_jwt(jwt_token) ==
    IF jwt_token = "" THEN "" ELSE "pay_123456789"

----------------------------------------------------------------------------
(* submit_payment: the ordered guards, lib.rs 99-123.  The result is the  *)
(* ContractError of the first guard that fails, or "Pass".                *)

\* variant: transaction check moved in front of the invoice lookup
submit_payment_guard_tx_first(invoice_opt, current_time, tx_hash) ==
    IF Len(tx_hash) < MinTxHashLen THEN "InvalidTx"
    ELSE IF invoice_opt.tag = "None" THEN "NotFound"
    ELSE IF u64_gt(current_time, invoice_opt.value.expires_at) THEN "Expired"
    ELSE IF invoice_opt.value.status = "Paid" THEN "AlreadyPaid"
    ELSE "Pass"

\* variant: paid check moved in front of the expiry check
submit_payment_guard_paid_first(invoice_opt, current_time, tx_hash) ==
    IF invoice_opt.tag = "None" THEN "NotFound"
    ELSE IF invoice_opt.value.status = "Paid" THEN "AlreadyPaid"
    ELSE IF u64_gt(current_time, invoice_opt.value.expires_at) THEN "Expired"
    ELSE IF Len(tx_hash) < MinTxHashLen THEN "InvalidTx"
    ELSE "Pass"

\* variant: transaction check moved in front of the paid check
submit_payment_guard_tx_before_paid(invoice_opt, current_time, tx_hash) ==
    IF invoice_opt.tag = "None" THEN "NotFound"
    ELSE IF u64_gt(current_time, invoice_opt.value.expires_at) THEN "Expired"
    ELSE IF Len(tx_hash) < MinTxHashLen THEN "InvalidTx"
    ELSE IF invoice_opt.value.status = "Paid" THEN "AlreadyPaid"
    ELSE "Pass"

\* variant: expiry check moved behind the transaction check
submit_payment_guard_expiry_last(invoice_opt, current_time, tx_hash) ==
    IF invoice_opt.tag = "None" THEN "NotFound"
    ELSE IF invoice_opt.value.status = "Paid" THEN "AlreadyPaid"
    ELSE IF Len(tx_hash) < MinTxHashLen THEN "InvalidTx"
    ELSE IF u64_gt(current_time, invoice_opt.value.expires_at) THEN "Expired"
    ELSE "Pass"

submit_payment_guard(invoice_opt, current_time, tx_hash) ==
    IF invoice_opt.tag = "None" THEN "NotFound"
    ELSE IF u64_gt(current_time, invoice_opt.value.expires_at) THEN "Expired"
    ELSE IF invoice_opt.value.status = "Paid" THEN "AlreadyPaid"
    ELSE IF Len(tx_hash) < MinTxHashLen THEN "InvalidTx"
    ELSE "Pass"

\* the PaymentRecord built at lib.rs 126-133
new_payment_record(invoice, payment_id, tx_hash, payer_public_key, current_time) ==
    [payment_id       |-> payment_id,
     tx_hash          |-> tx_hash,
     payer_public_key |-> payer_public_key,
     verified_at      |-> current_time,
     site_id          |-> invoice.site_id,
     amount           |-> invoice.amount]

\* variant: a token is honoured only for one invoice lifetime after payment
verify_jwt_result_expiring(record_store, jwt_token) ==
    LET payment_id == extract_payment_id_from_jwt(jwt_token) IN
    IF payment_id = "" THEN Err("BadJWT")
    ELSE IF storage_get(record_store, payment_id).tag = "None" THEN Err("NotFound")
    ELSE IF u64_gt(timestamp, record_store[payment_id].verified_at + InvoiceTtl)
         THEN Err("Expired")
    ELSE Ok(storage_get(record_store, payment_id).value)

\* the value verify_jwt returns when run against a record store
verify_jwt_result(record_store, jwt_token) ==
    LET payment_id == extract_payment_id_from_jwt(jwt_token) IN
    IF payment_id = "" THEN Err("BadJWT")
    ELSE IF storage_get(record_store, payment_id).tag = "None" THEN Err("NotFound")
    ELSE Ok(storage_get(record_store, payment_id).value)

----------------------------------------------------------------------------
(* The end-to-end scenario of the tests, followed by its inputs only: the  *)
(* stage is the number of scenario invocations the run consists of so far, *)
(* and any other step leaves the scenario for good.                        *)

ScenarioStart == [stage |-> 0, first_id |-> "", second_id |-> ""]

ScenarioOff == [stage |-> 0 - 1, first_id |-> "", second_id |-> ""]

ScenarioStep ==
    IF /\ scenario.stage = 0
       /\ call'.op = "request_payment" /\ call'.amount = 1000000
       /\ timestamp' = 1000 /\ ret'.tag = "Ok"
    THEN [scenario EXCEPT !.stage = 1, !.first_id = ret'.value.payment_id]
    ELSE IF /\ scenario.stage = 1
            /\ call'.op = "submit_payment"
            /\ call'.payment_id = scenario.first_id
            /\ Len(call'.tx_hash) = 22
    THEN [scenario EXCEPT !.stage = 2]
    ELSE IF scenario.stage = 2 /\ call' = call
    THEN [scenario EXCEPT !.stage = 3]
    ELSE IF /\ scenario.stage = 3
            /\ call'.op = "verify_jwt" /\ call'.jwt_token \in issued
    THEN [scenario EXCEPT !.stage = 4]
    ELSE IF scenario.stage = 4 /\ call'.op = "request_payment" /\ ret'.tag = "Ok"
    THEN [scenario EXCEPT !.stage = 5, !.second_id = ret'.value.payment_id]
    ELSE IF scenario.stage = 5 /\ call'.op = "ledger" /\ timestamp' = 5000
    THEN [scenario EXCEPT !.stage = 6]
    ELSE IF /\ scenario.stage = 6
            /\ call'.op = "submit_payment"
            /\ call'.payment_id = scenario.second_id
    THEN [scenario EXCEPT !.stage = 7]
    ELSE ScenarioOff

----------------------------------------------------------------------------
(* Initial state: a freshly registered contract, empty storage *)

Init ==
    /\ timestamp = StartTime
    /\ invoices = EmptyStore
    /\ records = EmptyStore
    /\ call = [op |-> "init"]
    /\ ret = Unit
    /\ issued = {}
    /\ advances = 0
    /\ scenario = ScenarioStart

----------------------------------------------------------------------------
(* Public contract functions *)

\* variant: a new invoice also drops the record stored under its id
request_payment_clearing(site_id, url_hash, amount) ==
    LET payment_id == generate_payment_id(site_id, url_hash, timestamp)
        invoice == [payment_id |-> payment_id,
                    site_id    |-> site_id,
                    url_hash   |-> url_hash,
                    amount     |-> amount,
                    created_at |-> timestamp,
                    expires_at |-> u64_wrapping_add(timestamp, InvoiceTtl),
                    status     |-> "Pending"]
    IN
    /\ call' = [op |-> "request_payment", site_id |-> site_id,
                url_hash |-> url_hash, amount |-> amount]
    /\ invoices' = storage_set(invoices, payment_id, invoice)
    /\ records' = [k \in DOMAIN records \ {payment_id} |-> records[k]]
    /\ ret' = Ok(invoice)
    /\ UNCHANGED <<timestamp, issued, advances>>

request_payment(site_id, url_hash, amount) ==
    LET current_time == timestamp
        payment_id == generate_payment_id(site_id, url_hash, current_time)
        overflow == u64_add_overflows(current_time, InvoiceTtl)
        expires_at == u64_wrapping_add(current_time, InvoiceTtl)
        invoice == [payment_id |-> payment_id,
                    site_id    |-> site_id,
                    url_hash   |-> url_hash,
                    amount     |-> amount,
                    created_at |-> current_time,
                    expires_at |-> expires_at,
                    status     |-> "Pending"]
    IN
    /\ call' = [op |-> "request_payment", site_id |-> site_id,
                url_hash |-> url_hash, amount |-> amount]
    \* `current_time + 3600` past u64::MAX panics in a build with overflow
    \* checks and wraps in a build without
    /\ \E overflow_checks \in BOOLEAN :
          IF overflow /\ overflow_checks
          THEN /\ ret' = Trap
               /\ UNCHANGED invoices
          ELSE /\ invoices' = storage_set(invoices, payment_id, invoice)
               /\ ret' = Ok(invoice)
    /\ UNCHANGED <<timestamp, records, issued, advances>>

\* variant: the record is written but the invoice is not marked Paid
submit_payment_record_only(payment_id, tx_hash, payer_public_key) ==
    LET invoice_opt == storage_get(invoices, payment_id)
        current_time == timestamp
        failed == submit_payment_guard(invoice_opt, current_time, tx_hash)
    IN
    /\ call' = [op |-> "submit_payment", payment_id |-> payment_id,
                tx_hash |-> tx_hash, payer_public_key |-> payer_public_key]
    /\ IF failed # "Pass"
       THEN /\ ret' = Err(failed)
            /\ UNCHANGED <<invoices, records, issued>>
       ELSE LET payment_record == new_payment_record(invoice_opt.value, payment_id,
                                      tx_hash, payer_public_key, current_time)
            IN
            /\ UNCHANGED invoices
            /\ records' = storage_set(records, payment_id, payment_record)
            /\ ret' = Ok(generate_jwt(payment_record))
            /\ issued' = issued \cup {generate_jwt(payment_record)}
    /\ UNCHANGED <<timestamp, advances>>

submit_payment(payment_id, tx_hash, payer_public_key) ==
    LET invoice_opt == storage_get(invoices, payment_id)
        current_time == timestamp
        failed == submit_payment_guard(invoice_opt, current_time, tx_hash)
    IN
    /\ call' = [op |-> "submit_payment", payment_id |-> payment_id,
                tx_hash |-> tx_hash, payer_public_key |-> payer_public_key]
    /\ IF failed # "Pass"
       THEN /\ ret' = Err(failed)
            /\ UNCHANGED <<invoices, records, issued>>
       ELSE LET invoice == invoice_opt.value
                payment_record == new_payment_record(invoice, payment_id, tx_hash,
                                                     payer_public_key, current_time)
                jwt_token == generate_jwt(payment_record)
            IN
            /\ invoices' = storage_set(invoices, payment_id,
                                       [invoice EXCEPT !.status = "Paid"])
            /\ records' = storage_set(records, payment_id, payment_record)
            /\ ret' = Ok(jwt_token)
            /\ issued' = issued \cup {jwt_token}
    /\ UNCHANGED <<timestamp, advances>>

\* variant: an invoice past its expiry is reported with status Expired
get_payment_invoice_expiring(payment_id) ==
    /\ call' = [op |-> "get_payment_invoice", payment_id |-> payment_id]
    /\ ret' = IF payment_id \in DOMAIN invoices
                 /\ u64_gt(timestamp, invoices[payment_id].expires_at)
              THEN Some([invoices[payment_id] EXCEPT !.status = "Expired"])
              ELSE storage_get(invoices, payment_id)
    /\ UNCHANGED <<timestamp, invoices, records, issued, advances>>

get_payment_invoice(payment_id) ==
    /\ call' = [op |-> "get_payment_invoice", payment_id |-> payment_id]
    /\ ret' = storage_get(invoices, payment_id)
    /\ UNCHANGED <<timestamp, invoices, records, issued, advances>>

get_payment_record(payment_id) ==
    /\ call' = [op |-> "get_payment_record", payment_id |-> payment_id]
    /\ ret' = storage_get(records, payment_id)
    /\ UNCHANGED <<timestamp, invoices, records, issued, advances>>

\* variant: a token is consumed by its first successful verification
verify_jwt_consuming(jwt_token) ==
    /\ call' = [op |-> "verify_jwt", jwt_token |-> jwt_token]
    /\ ret' = verify_jwt_result(records, jwt_token)
    /\ records' = [k \in DOMAIN records \ {extract_payment_id_from_jwt(jwt_token)}
                      |-> records[k]]
    /\ UNCHANGED <<timestamp, invoices, issued, advances>>

verify_jwt(jwt_token) ==
    /\ call' = [op |-> "verify_jwt", jwt_token |-> jwt_token]
    /\ ret' = verify_jwt_result(records, jwt_token)
    /\ UNCHANGED <<timestamp, invoices, records, issued, advances>>

\* the ledger closes and its timestamp moves forward
AdvanceLedger(delta) ==
    /\ advances < MaxAdvances
    /\ ~u64_add_overflows(timestamp, delta)
    /\ timestamp' = timestamp + delta
    /\ advances' = advances + 1
    /\ call' = [op |-> "ledger"]
    /\ ret' = Unit
    /\ UNCHANGED <<invoices, records, issued>>

RequestPayment ==
    \E site_id \in SiteIds, url_hash \in UrlHashes, amount \in Amounts :
        request_payment(site_id, url_hash, amount)

SubmitPayment ==
    \E payment_id \in PaymentIds, tx_hash \in TxHashes, payer \in PayerKeys :
        submit_payment(payment_id, tx_hash, payer)

GetPaymentInvoice == \E payment_id \in PaymentIds : get_payment_invoice(payment_id)

GetPaymentRecord == \E payment_id \in PaymentIds : get_payment_record(payment_id)

VerifyJwt == \E jwt_token \in JwtTokens : verify_jwt(jwt_token)

Advance == \E delta \in Deltas : AdvanceLedger(delta)

Next ==
    /\ \/ RequestPayment
       \/ SubmitPayment
       \/ GetPaymentInvoice
       \/ GetPaymentRecord
       \/ VerifyJwt
       \/ Advance
    /\ scenario' = ScenarioStep

Spec == Init /\ [][Next]_vars

\* a ledger whose timestamp is close to u64::MAX: TopStartTime is the
\* signed reading of 2^64 - 3601
TopStartTime == 0 - 3601

InitTop ==
    /\ timestamp = TopStartTime
    /\ invoices = EmptyStore
    /\ records = EmptyStore
    /\ call = [op |-> "init"]
    /\ ret = Unit
    /\ issued = {}
    /\ advances = 0
    /\ scenario = ScenarioStart

SpecTop == InitTop /\ [][Next]_vars

----------------------------------------------------------------------------
(* Shorthands used by the properties *)

HasInvoice(p) == p \in DOMAIN invoices

HasRecord(p) == p \in DOMAIN records

IsPaid(p) == HasInvoice(p) /\ invoices[p].status = "Paid"

IsPending(p) == HasInvoice(p) /\ invoices[p].status = "Pending"

Failed(r, e) == r.tag = "Err" /\ r.error = e

\* the step is a submit_payment invocation
SubmitStep == call'.op = "submit_payment"

----------------------------------------------------------------------------
(* Properties *)

\* C1: in every reachable state, for every payment_id p, a PaymentRecord is
\* stored under p if and only if an invoice is stored under p with status Paid.
C1_RecordIffPaid ==
    \A p \in PaymentIds : HasRecord(p) <=> IsPaid(p)

\* C2: once the invoice stored under a payment_id has status Paid, every
\* later state still stores it with status Paid (no step leaves Paid).
C2_PaidIsFinal ==
    [][\A p \in PaymentIds :
          IsPaid(p) => (p \in DOMAIN invoices' /\ invoices'[p].status = "Paid")]_vars

\* C3: a PaymentRecord is written at most once per payment_id and is
\* immutable: no step changes or removes a stored record, and no
\* submit_payment on a payment_id that has a record succeeds.
C3_RecordWrittenOnce ==
    [][\A p \in PaymentIds :
          HasRecord(p) =>
              /\ p \in DOMAIN records'
              /\ records'[p] = records[p]
              /\ (SubmitStep /\ call'.payment_id = p => ret'.tag = "Err")]_vars

\* C4: every request_payment returns a payment_id under which no invoice
\* was stored before the call, so it overwrites no existing invoice.
C4_FreshPaymentId ==
    [][call'.op = "request_payment" =>
          /\ ret'.value.payment_id \notin DOMAIN invoices
          /\ \A p \in DOMAIN invoices : invoices'[p] = invoices[p]]_vars

\* C5: round trip: right after a successful submit_payment(p, tx_hash, payer)
\* returning token t, verify_jwt(t) returns Ok(record) with
\* record.payment_id = p, and record is the PaymentRecord that call wrote.
C5_RoundTrip ==
    (call.op = "submit_payment" /\ ret.tag = "Ok") =>
        LET resolved == verify_jwt_result(records, ret.value) IN
        /\ resolved.tag = "Ok"
        /\ resolved.value.payment_id = call.payment_id
        /\ resolved.value.tx_hash = call.tx_hash
        /\ resolved.value.payer_public_key = call.payer_public_key
        /\ resolved.value.verified_at = timestamp
        /\ resolved.value.site_id = invoices[call.payment_id].site_id
        /\ resolved.value.amount = invoices[call.payment_id].amount

C5_Witness ==
    /\ call.op = "submit_payment"
    /\ ret.tag = "Ok"
    /\ call.tx_hash = "stellar_tx_hash_123456"
    /\ verify_jwt_result(records, ret.value).tag = "Ok"

\* C6: submit_payment on a stored invoice at a ledger time after its
\* expires_at returns Expired, whatever the status, tx_hash and payer, and
\* leaves the invoice and record stores unchanged.
C6_ExpiredRejected ==
    [][(/\ SubmitStep
        /\ HasInvoice(call'.payment_id)
        /\ timestamp > invoices[call'.payment_id].expires_at)
       => (Failed(ret', "Expired") /\ UNCHANGED store)]_vars

C6_Witness ==
    /\ call.op = "submit_payment"
    /\ Failed(ret, "Expired")
    /\ IsPaid(call.payment_id)
    /\ Len(call.tx_hash) >= MinTxHashLen

\* C7 as stated: submit_payment on an invoice whose stored status is Paid
\* always fails with AlreadyPaid and leaves the store unchanged.
C7_PaidAlwaysAlreadyPaid ==
    [][(SubmitStep /\ IsPaid(call'.payment_id))
       => (Failed(ret', "AlreadyPaid") /\ UNCHANGED store)]_vars

\* C7 amended: submit_payment on an invoice whose stored status is Paid, at
\* a ledger time not after its expires_at, fails with AlreadyPaid for every
\* tx_hash and payer_public_key and leaves the store unchanged.
C7_PaidUnexpiredAlreadyPaid ==
    [][(/\ SubmitStep
        /\ IsPaid(call'.payment_id)
        /\ timestamp <= invoices[call'.payment_id].expires_at)
       => (Failed(ret', "AlreadyPaid") /\ UNCHANGED store)]_vars

C7_Witness ==
    /\ call.op = "submit_payment"
    /\ Failed(ret, "AlreadyPaid")
    /\ Len(call.tx_hash) < MinTxHashLen
    /\ call.payer_public_key # records[call.payment_id].payer_public_key

\* C8: submit_payment with a payment_id under which no invoice is stored
\* returns NotFound for every tx_hash, payer and ledger time, and writes
\* nothing.
C8_UnknownIdNotFound ==
    [][(SubmitStep /\ ~HasInvoice(call'.payment_id))
       => (Failed(ret', "NotFound") /\ UNCHANGED store)]_vars

C8_Witness ==
    /\ call.op = "submit_payment"
    /\ Failed(ret, "NotFound")
    /\ Len(call.tx_hash) < MinTxHashLen
    /\ DOMAIN invoices # {}
    /\ timestamp > StartTime

\* C9: submit_payment on a Pending, unexpired invoice with a tx_hash shorter
\* than 10 characters returns InvalidTx without mutation: afterwards the
\* invoice is unchanged and Pending, no PaymentRecord exists under its
\* payment_id, and a submit_payment with a well-formed tx_hash would pass.
C9_InvalidTxNoMutation ==
    [][(/\ SubmitStep
        /\ IsPending(call'.payment_id)
        /\ timestamp <= invoices[call'.payment_id].expires_at
        /\ Len(call'.tx_hash) < MinTxHashLen)
       => (/\ Failed(ret', "InvalidTx")
           /\ invoices' = invoices
           /\ invoices'[call'.payment_id].status = "Pending"
           /\ call'.payment_id \notin DOMAIN records'
           /\ submit_payment_guard(storage_get(invoices', call'.payment_id),
                                   timestamp', "1234567890") = "Pass")]_vars

\* C10: verify_jwt returns BadJWT for the empty token and for every token
\* that is not one submit_payment produces, NotFound for a well-formed token
\* whose payment_id has no record, and returns a record only for a token
\* that some successful submit_payment returned.
C10_OnlyIssuedTokensResolve ==
    call.op = "verify_jwt" =>
        /\ (call.jwt_token = "" => Failed(ret, "BadJWT"))
        /\ (call.jwt_token # "pertoken.jwt.token" => Failed(ret, "BadJWT"))
        /\ (call.jwt_token = "pertoken.jwt.token"
              /\ ~HasRecord(extract_payment_id_from_jwt(call.jwt_token))
                => Failed(ret, "NotFound"))
        /\ (ret.tag = "Ok" => call.jwt_token \in issued)

\* C11: request_payment has no error path: for every site_id, url_hash,
\* amount and u64 ledger timestamp it returns and stores a Pending invoice
\* with created_at = now and expires_at = now + 3600, and every stored
\* invoice has expires_at - created_at = 3600 exactly.
C11_RequestAlwaysSucceeds ==
    /\ call.op = "request_payment" =>
          /\ ret.tag = "Ok"
          /\ ret.value.status = "Pending"
          /\ ret.value.created_at = timestamp
          /\ u64_is_sum(ret.value.expires_at, timestamp, InvoiceTtl)
          /\ ret.value.site_id = call.site_id
          /\ ret.value.amount = call.amount
          /\ storage_get(invoices, ret.value.payment_id) = Some(ret.value)
    /\ \A p \in DOMAIN invoices :
          u64_is_sum(invoices[p].expires_at, invoices[p].created_at, InvoiceTtl)

\* C12: submit_payment evaluates its guards in the order NotFound, Expired,
\* AlreadyPaid, InvalidTx and reports the first that fails; it returns a
\* token exactly when none of the four conditions holds.
C12_GuardOrder ==
    [][SubmitStep =>
        LET p       == call'.payment_id
            missing == ~HasInvoice(p)
            expired == HasInvoice(p) /\ u64_gt(timestamp, invoices[p].expires_at)
            paid    == IsPaid(p)
            badtx   == Len(call'.tx_hash) < MinTxHashLen
        IN
        /\ missing => Failed(ret', "NotFound")
        /\ (~missing /\ expired) => Failed(ret', "Expired")
        /\ (~missing /\ ~expired /\ paid) => Failed(ret', "AlreadyPaid")
        /\ (~missing /\ ~expired /\ ~paid /\ badtx) => Failed(ret', "InvalidTx")
        /\ (ret'.tag = "Ok") <=> (~missing /\ ~expired /\ ~paid /\ ~badtx)]_vars

C12_Witness ==
    /\ call.op = "submit_payment"
    /\ Failed(ret, "Expired")
    /\ IsPaid(call.payment_id)
    /\ Len(call.tx_hash) < MinTxHashLen

\* C13: the end-to-end scenario is a possible behaviour with the stated
\* outcomes: request_payment at now=1000 with amount 1000000 gives a Pending
\* invoice with expires_at=4600; submit_payment at now=1000 with a
\* 22-character tx_hash succeeds, the status becomes Paid and a record is
\* created; submitting again gives AlreadyPaid; verify_jwt of the issued
\* token returns a record with the matching payment_id; after a second
\* request_payment and advancing now to 5000, submit_payment on the second
\* invoice gives Expired.
C13_ScenarioOutcomes ==
    /\ scenario.stage = 1 =>
          /\ ret.tag = "Ok"
          /\ ret.value.expires_at = 4600
          /\ ret.value.status = "Pending"
          /\ storage_get(invoices, scenario.first_id) = Some(ret.value)
    /\ scenario.stage = 2 =>
          /\ ret.tag = "Ok"
          /\ IsPaid(scenario.first_id)
          /\ HasRecord(scenario.first_id)
    /\ scenario.stage = 3 => Failed(ret, "AlreadyPaid")
    /\ scenario.stage = 4 =>
          /\ ret.tag = "Ok"
          /\ ret.value.payment_id = scenario.first_id
    /\ scenario.stage = 5 =>
          /\ ret.tag = "Ok"
          /\ storage_get(invoices, scenario.second_id) = Some(ret.value)
    /\ scenario.stage = 6 => timestamp = 5000
    /\ scenario.stage = 7 => Failed(ret, "Expired")

C13_Witness ==
    /\ scenario.stage = 7
    /\ Failed(ret, "Expired")
    /\ timestamp = 5000

\* C14: a successful submit_payment applies both writes (status Paid, record
\* inserted) in one step and a failed one applies neither; of two
\* submit_payment calls in a row on the same invoice with well-formed
\* tx_hash values, the first having returned a token, the second returns
\* AlreadyPaid and the record keeps the tx_hash and payer of the first.
C14_AtomicCommit ==
    [][SubmitStep =>
        LET p == call'.payment_id IN
        /\ ret'.tag = "Ok" =>
              /\ IsPending(p)
              /\ invoices' = storage_set(invoices, p, [invoices[p] EXCEPT !.status = "Paid"])
              /\ records' = storage_set(records, p,
                     new_payment_record(invoices[p], p, call'.tx_hash,
                                        call'.payer_public_key, timestamp))
        /\ ret'.tag = "Err" => UNCHANGED store
        /\ (/\ call.op = "submit_payment" /\ ret.tag = "Ok"
            /\ call.payment_id = p
            /\ Len(call'.tx_hash) >= MinTxHashLen)
           => /\ Failed(ret', "AlreadyPaid")
              /\ records'[p].tx_hash = call.tx_hash
              /\ records'[p].payer_public_key = call.payer_public_key]_vars

C14_Witness ==
    /\ call.op = "submit_payment"
    /\ Failed(ret, "AlreadyPaid")
    /\ Len(call.tx_hash) >= MinTxHashLen
    /\ records[call.payment_id].tx_hash # call.tx_hash
    /\ records[call.payment_id].payer_public_key # call.payer_public_key
    /\ records[call.payment_id].verified_at = timestamp

\* C15: Expired is never persisted: every stored invoice has status Pending
\* or Paid, also past its expires_at and after a submit_payment that
\* returned Expired; get_payment_invoice on an invoice past its expires_at
\* returns it with its stored status.
C15_ExpiredNeverStored ==
    /\ \A p \in DOMAIN invoices : invoices[p].status \in {"Pending", "Paid"}
    /\ (call.op = "get_payment_invoice" /\ HasInvoice(call.payment_id))
          => ret = Some(invoices[call.payment_id])
    /\ (call.op = "submit_payment" /\ Failed(ret, "Expired"))
          => invoices[call.payment_id].status \in {"Pending", "Paid"}

C15_Witness ==
    /\ call.op = "get_payment_invoice"
    /\ HasInvoice(call.payment_id)
    /\ u64_gt(timestamp, invoices[call.payment_id].expires_at)
    /\ ret.value.status = "Pending"

\* C16: get_payment_invoice, get_payment_record and verify_jwt leave the
\* invoice and record stores unchanged whatever they return; only
\* request_payment and a successful submit_payment change the store.
C16_ReadsAreReadOnly ==
    [][/\ call'.op \in {"get_payment_invoice", "get_payment_record", "verify_jwt"}
          => UNCHANGED store
       /\ store' # store
          => \/ call'.op = "request_payment"
             \/ call'.op = "submit_payment" /\ ret'.tag = "Ok"]_vars

C16_Witness ==
    /\ call.op = "verify_jwt"
    /\ ret.tag = "Ok"
    /\ HasRecord(ret.value.payment_id)

\* C17: mutation is keyed by payment_id: submit_payment(p, ...) changes at
\* most the invoice and the record under p; request_payment changes only
\* the invoice under the payment_id it returns and leaves every record
\* unchanged.
C17_KeyedMutation ==
    [][/\ SubmitStep =>
            \A q \in PaymentIds \ {call'.payment_id} :
                /\ storage_get(invoices', q) = storage_get(invoices, q)
                /\ storage_get(records', q) = storage_get(records, q)
       /\ (call'.op = "request_payment" /\ ret'.tag = "Ok") =>
            /\ \A q \in PaymentIds \ {ret'.value.payment_id} :
                  storage_get(invoices', q) = storage_get(invoices, q)
            /\ records' = records]_vars

C17_Witness ==
    /\ call.op = "request_payment"
    /\ ret.tag = "Ok"
    /\ HasRecord(ret.value.payment_id)

\* C18: every stored PaymentRecord is a snapshot of its invoice: for each
\* payment_id p with a record, record.payment_id = p, site_id and amount
\* equal those of the invoice stored under p, tx_hash has length >= 10 and
\* invoice.created_at <= record.verified_at <= invoice.expires_at.
C18_RecordSnapshotsInvoice ==
    \A p \in DOMAIN records :
        /\ records[p].payment_id = p
        /\ HasInvoice(p)
        /\ records[p].site_id = invoices[p].site_id
        /\ records[p].amount = invoices[p].amount
        /\ Len(records[p].tx_hash) >= MinTxHashLen
        /\ ~u64_gt(invoices[p].created_at, records[p].verified_at)
        /\ ~u64_gt(records[p].verified_at, invoices[p].expires_at)

\* C19: the expiry guard is strict: submit_payment on a Pending invoice with
\* a tx_hash of at least 10 characters succeeds at every ledger time
\* now <= expires_at (now = expires_at and now = created_at included) and
\* fails with Expired from now = expires_at + 1 on.
C19_StrictExpiry ==
    [][(/\ SubmitStep
        /\ IsPending(call'.payment_id)
        /\ Len(call'.tx_hash) >= MinTxHashLen)
       => LET invoice == invoices[call'.payment_id] IN
          /\ timestamp <= invoice.expires_at => ret'.tag = "Ok"
          /\ timestamp >= invoice.expires_at + 1 => Failed(ret', "Expired")]_vars

C19_Witness ==
    /\ call.op = "submit_payment"
    /\ ret.tag = "Ok"
    /\ timestamp = invoices[call.payment_id].expires_at
    /\ timestamp > invoices[call.payment_id].created_at

\* C20: an issued token stays redeemable: once submit_payment has returned
\* token t, verify_jwt(t) returns Ok in every later state, whatever the
\* ledger time and the invoice's status, and whatever calls came between.
C20_IssuedTokenStaysValid ==
    /\ \A t \in issued : verify_jwt_result(records, t).tag = "Ok"
    /\ (call.op = "verify_jwt" /\ call.jwt_token \in issued) => ret.tag = "Ok"

C20_Witness ==
    /\ call.op = "verify_jwt"
    /\ call.jwt_token \in issued
    /\ ret.tag = "Ok"
    /\ IsPending(ret.value.payment_id)
    /\ u64_gt(timestamp, invoices[ret.value.payment_id].expires_at)

====
